---- MODULE Spec2Model ----
(***************************************************************************)
(* Event formatter registry and message rendering of plaso's               *)
(* lib/eventdata.py: EventFormatterManager (GetFormatter,                  *)
(* GetMessageStrings), EventFormatter.GetMessages and                      *)
(* ConditionalEventFormatter (__init__, GetMessages).                      *)
(*                                                                         *)
(* A Python string is a sequence of one-character strings; the carriage    *)
(* return and the line feed are the characters "CR" and "LF".  A data type *)
(* is an atomic string, used only as a dictionary key and compared.        *)
(***************************************************************************)
EXTENDS Integers, Sequences, FiniteSets, TLC

(***************************************************************************)
(* Characters and string helpers                                           *)
(***************************************************************************)
CR == "CR"
LF == "LF"

Lower == {"a","b","c","d","e","f","g","h","i","j","k","l","m",
          "n","o","p","q","r","s","t","u","v","w","x","y","z"}
Upper == {"A","B","C","D","E","F","G","H","I","J","K","L","M",
          "N","O","P","Q","R","S","T","U","V","W","X","Y","Z"}
Digit == {"0","1","2","3","4","5","6","7","8","9"}
\* [a-zA-Z0-9_] of the regular expression of ConditionalEventFormatter.
WordChar == Lower \cup Upper \cup Digit \cup {"_"}

\* n copies of the character ch.
Rep(ch, n) == [i \in 1..n |-> ch]

\* sep.join(parts)
RECURSIVE Join(_, _)
Join(sep, parts) ==
  IF parts = <<>> THEN <<>>
  ELSE IF Len(parts) = 1 THEN parts[1]
  ELSE parts[1] \o sep \o Join(sep, Tail(parts))

\* s.replace('\r', '').replace('\n', '')
StripCRLF(s) == SelectSeq(SelectSeq(s, LAMBDA ch : ch # CR), LAMBDA ch : ch # LF)

\* The least index j >= i with s[j] \in chars, or Len(s) + 1.
IndexOfAny(s, i, chars) ==
  IF \E j \in i..Len(s) : s[j] \in chars
  THEN CHOOSE j \in i..Len(s) :
         s[j] \in chars /\ \A k \in i..(j - 1) : s[k] \notin chars
  ELSE Len(s) + 1

\* The least index j >= i with s[j] \notin chars, or Len(s) + 1.
IndexOfNot(s, i, chars) ==
  IF \E j \in i..Len(s) : s[j] \notin chars
  THEN CHOOSE j \in i..Len(s) :
         s[j] \notin chars /\ \A k \in i..(j - 1) : s[k] \in chars
  ELSE Len(s) + 1

DigitChar == <<"0","1","2","3","4","5","6","7","8","9">>

\* str(n) of a non-negative integer.
RECURSIVE NatToStr(_)
NatToStr(n) ==
  IF n < 10 THEN <<DigitChar[n + 1]>>
  ELSE NatToStr(n \div 10) \o <<DigitChar[(n % 10) + 1]>>

\* str(n) of an integer.
IntToStr(n) == IF n < 0 THEN <<"-">> \o NatToStr(0 - n) ELSE NatToStr(n)

(***************************************************************************)
(* Attribute values of an event object: a string, an integer or None.      *)
(***************************************************************************)
StrV(s) == [t |-> "str", s |-> s, n |-> 0]
IntV(n) == [t |-> "int", s |-> <<>>, n |-> n]
NoneV == [t |-> "none", s |-> <<>>, n |-> 0]

\* bool(value)
Truthy(v) ==
  CASE v.t = "str" -> v.s # <<>>
    [] v.t = "int" -> v.n # 0
    [] OTHER -> FALSE

\* What '{0}'.format(value) and '{name}'.format(name=value) write for value.
ValueToStr(v) ==
  CASE v.t = "str" -> v.s
    [] v.t = "int" -> IntToStr(v.n)
    [] OTHER -> <<"N","o","n","e">>

(***************************************************************************)
(* Event objects.  attributes is the attribute dictionary in its iteration *)
(* order: a sequence of <<name, value>> pairs with distinct names.         *)
(***************************************************************************)
None == "<None>"

HasAttr(attrs, name) == \E i \in 1..Len(attrs) : attrs[i][1] = name

Lookup(attrs, name) ==
  attrs[CHOOSE i \in 1..Len(attrs) : attrs[i][1] = name][2]

\* event_object.GetValues(): the attribute dictionary.
GetValues(event_object) == event_object.attributes

\* event_object.attributes
Attributes(event_object) == event_object.attributes

\* getattr(event_object, attribute_name, None)
GetAttr(event_object, attribute_name) ==
  IF HasAttr(event_object.attributes, attribute_name)
  THEN Lookup(event_object.attributes, attribute_name)
  ELSE NoneV

(***************************************************************************)
(* unicode.format of the values, for the template syntax the formatters use:   *)
(* literal text, the escapes {{ and }}, and {name} replacement fields.     *)
(* The field name is the text up to the closing brace (the templates of    *)
(* this model use no conversion, format specification, attribute or index  *)
(* syntax).  The template is processed left to right and the first error   *)
(* ends it: KeyError for a name that values lacks, IndexError for a        *)
(* positional field (no positional arguments are passed), ValueError for   *)
(* an unbalanced brace.                                                    *)
(***************************************************************************)
FormatOk(s) == [kind |-> "ok", s |-> s, key |-> <<>>]
FormatError(kind, key) == [kind |-> kind, s |-> <<>>, key |-> key]

\* r with the text s written before it, when r is no error.
Before(s, r) == IF r.kind = "ok" THEN FormatOk(s \o r.s) ELSE r

FormatStepOk(s, next) == [kind |-> "ok", s |-> s, next |-> next, key |-> <<>>]
FormatStepError(kind, key) == [kind |-> kind, s |-> <<>>, next |-> 0, key |-> key]

\* The replacement field whose name is tpl[i + 1 .. j - 1]: the value of the
\* name in values.
FormatField(name, j, values) ==
  IF IndexOfNot(name, 1, Digit) > Len(name)
  THEN FormatStepError("IndexError", name)
  ELSE IF ~HasAttr(values, name) THEN FormatStepError("KeyError", name)
  ELSE FormatStepOk(ValueToStr(Lookup(values, name)), j + 1)

\* What unicode.format does at index i of the template, j being the index
\* of the next brace after i: the text it writes and the index it goes on
\* from, or the error it raises.
FormatStep(tpl, i, j, values) ==
  IF tpl[i] = "{" THEN
    IF i = Len(tpl) THEN FormatStepError("ValueError", <<>>)
    ELSE IF tpl[i + 1] = "{" THEN FormatStepOk(<<"{">>, i + 2)
    ELSE IF j > Len(tpl) \/ tpl[j] = "{"
      THEN FormatStepError("ValueError", <<>>)
    ELSE FormatField(SubSeq(tpl, i + 1, j - 1), j, values)
  ELSE IF tpl[i] = "}" THEN
    IF i < Len(tpl) /\ tpl[i + 1] = "}" THEN FormatStepOk(<<"}">>, i + 2)
    ELSE FormatStepError("ValueError", <<>>)
  ELSE FormatStepOk(SubSeq(tpl, i, j - 1), j)

RECURSIVE FormatFrom(_, _, _)
\* unicode.format after the step st.
FormatAfter(tpl, st, values) ==
  IF st.kind # "ok" THEN FormatError(st.kind, st.key)
  ELSE Before(st.s, FormatFrom(tpl, st.next, values))

\* unicode.format from index i of the template on.
FormatFrom(tpl, i, values) ==
  IF i > Len(tpl) THEN FormatOk(<<>>)
  ELSE FormatAfter(tpl,
         FormatStep(tpl, i, IndexOfAny(tpl, i + 1, {"{", "}"}), values),
         values)

Format(tpl, values) == FormatFrom(tpl, 1, values)

\* '%s' % error of the KeyError that unicode.format raises: the repr of the
\* missing key, a unicode string.
KeyErrorStr(key) == <<"u", "'">> \o key \o <<"'">>

(***************************************************************************)
(* EventFormatter                                                          *)
(***************************************************************************)
\* The class attributes of EventFormatter, which a formatter class overrides.
EventFormatterDefaults ==
  [DATA_TYPE |-> "internal",
   FORMAT_STRING |-> <<>>,
   FORMAT_STRING_SHORT |-> <<>>]

\* The class attributes of ConditionalEventFormatter.
ConditionalEventFormatterDefaults ==
  [FORMAT_STRING_PIECES |-> << <<>> >>,
   FORMAT_STRING_SHORT_PIECES |-> << <<>> >>,
   FORMAT_STRING_SEPARATOR |-> <<" ">>]

\* EventFormatter.__init__: the instance attributes.
EventFormatterInit(cls) ==
  [format_string |-> cls.FORMAT_STRING,
   format_string_short |-> cls.FORMAT_STRING_SHORT,
   format_string_pieces_map |-> <<>>,
   format_string_short_pieces_map |-> <<>>]

\* The guard left out: any event object is formatted.
AnyDataType(cls, event_object) == TRUE

\* The guard of EventFormatter.GetMessages: the formatter's data type is the
\* event object's.
DataTypeMatches(cls, event_object) == cls.DATA_TYPE = event_object.data_type

\* One entry of the attribute dump: u'{0}: {1}'.format(attr, value)
AttrDump(pair) == pair[1] \o <<":", " ">> \o ValueToStr(pair[2])

\* The message of the except KeyError branch without the loop over the
\* attributes.
FormatErrorMessageNoDump(key, format_string, event_object) ==
  <<"F","o","r","m","a","t"," ","e","r","r","o","r",":"," ","[">>
  \o KeyErrorStr(key) \o <<"]"," ","f","o","r",":"," ","<">>
  \o format_string \o <<">">>

\* The message of the except KeyError branch, before it is stripped.
FormatErrorMessage(key, format_string, event_object) ==
  LET attrs == Attributes(event_object)
      msgs == << <<"F","o","r","m","a","t"," ","e","r","r","o","r",":"," ","[">>
                 \o KeyErrorStr(key)
                 \o <<"]"," ","f","o","r",":"," ","<">>
                 \o format_string \o <<">">> >>
              \o [i \in 1..Len(attrs) |-> AttrDump(attrs[i])]
  IN Join(<<" ">>, msgs)

\* The long message, r being what format_string.format gave: the except
\* KeyError branch and the strip.  kind is "ok", or the exception that is
\* not caught.
LongMessageOf(r, format_string, event_object) ==
  CASE r.kind = "ok" -> [kind |-> "ok", msg |-> StripCRLF(r.s)]
    [] r.kind = "KeyError" ->
         [kind |-> "ok",
          msg |-> StripCRLF(FormatErrorMessage(r.key, format_string,
                                               event_object))]
    [] OTHER -> [kind |-> r.kind, msg |-> <<>>]

\* The long message of GetMessages.
LongMessage(format_string, event_object) ==
  LongMessageOf(Format(format_string, GetValues(event_object)),
                format_string, event_object)

ShortLimit == 80
ShortKeep == 77

\* The long message cut at the limit itself, before the ellipsis.
ShortFromLongCutAtLimit(msg) ==
  IF Len(msg) > ShortLimit
  THEN SubSeq(msg, 1, ShortLimit) \o <<".", ".", ".">>
  ELSE msg

\* The short message derived from the long one.
ShortFromLong(msg) ==
  IF Len(msg) > ShortLimit
  THEN SubSeq(msg, 1, ShortKeep) \o <<".", ".", ".">>
  ELSE msg

\* The short message of the except KeyError branch.
UnableToFormat(format_string_short) ==
  <<"U","n","a","b","l","e"," ","t","o"," ","f","o","r","m","a","t"," ",
    "s","t","r","i","n","g",":"," ">> \o format_string_short

\* The short message of a format_string_short that is not empty, r being
\* what format_string_short.format gave.
ShortMessageOf(r, format_string_short) ==
  CASE r.kind = "ok" -> [kind |-> "ok", msg |-> StripCRLF(r.s)]
    [] r.kind = "KeyError" ->
         [kind |-> "ok", msg |-> UnableToFormat(format_string_short)]
    [] OTHER -> [kind |-> r.kind, msg |-> <<>>]

\* The short message of GetMessages: from format_string_short when it is
\* not empty, from the long message otherwise.
ShortMessage(format_string_short, msg, event_object) ==
  IF format_string_short # <<>>
  THEN ShortMessageOf(Format(format_string_short, Attributes(event_object)),
                      format_string_short)
  ELSE [kind |-> "ok", msg |-> ShortFromLong(msg)]

Raised(kind) == [kind |-> kind, msg |-> <<>>, msg_short |-> <<>>]

\* return msg, msg_short
ReturnMessages(msg, short) ==
  IF short.kind # "ok" THEN Raised(short.kind)
  ELSE [kind |-> "return", msg |-> msg, msg_short |-> short.msg]

\* GetMessages after the long message.
MessagesAfterLong(self, long, event_object) ==
  IF long.kind # "ok" THEN Raised(long.kind)
  ELSE ReturnMessages(long.msg,
         ShortMessage(self.format_string_short, long.msg, event_object))

\* EventFormatter.GetMessages on the instance self of class cls: the pair
\* returned (kind "return") or the exception raised.
EventFormatterGetMessages(cls, self, event_object) ==
  IF ~DataTypeMatches(cls, event_object) THEN Raised("WrongFormatter")
  ELSE MessagesAfterLong(self,
         LongMessage(self.format_string, event_object), event_object)

(***************************************************************************)
(* ConditionalEventFormatter                                               *)
(***************************************************************************)
\* The end of the match of {[a-z][a-zA-Z0-9_]*} that starts at index i of s,
\* or 0 when there is none.
MatchEnd(s, i) ==
  IF s[i] = "{" /\ i + 1 <= Len(s) /\ s[i + 1] \in Lower
  THEN LET k == IndexOfNot(s, i + 2, WordChar)
       IN IF k <= Len(s) /\ s[k] = "}" THEN k ELSE 0
  ELSE 0

\* regexp.findall(format_string_piece), from index i on: the matches that do
\* not overlap, left to right.
RECURSIVE FindAllFrom(_, _)
\* findall at the brace of index b, k being the end of the match there.
FindAllAt(s, b, k) ==
  IF b > Len(s) THEN <<>>
  ELSE (IF k = 0 THEN <<>> ELSE <<SubSeq(s, b, k)>>)
       \o FindAllFrom(s, IF k = 0 THEN b + 1 ELSE k + 1)

\* The index of the first opening brace from i on, and the end of the match
\* there.
BraceAt(s, b) == [b |-> b, k |-> IF b > Len(s) THEN 0 ELSE MatchEnd(s, b)]

FindAllBrace(s, at) == FindAllAt(s, at.b, at.k)

FindAllFrom(s, i) == FindAllBrace(s, BraceAt(s, IndexOfAny(s, i, {"{"})))

FindAll(format_string_piece) == FindAllFrom(format_string_piece, 1)

\* No entry for a text piece: the indices of the map no longer are those of
\* the pieces.
AppendMapEntryOfAttribute(map, result) ==
  IF result = <<>> THEN map
  ELSE Append(map, SubSeq(result[1], 2, Len(result[1]) - 1))

\* The map with the entry of one format string piece appended, for the
\* result of findall with at most one match: '' for a text piece, the
\* attribute name without its braces otherwise.
AppendMapEntry(map, result) ==
  IF result = <<>> THEN Append(map, <<>>)
  ELSE Append(map, SubSeq(result[1], 2, Len(result[1]) - 1))

\* The loop of __init__ over the format string pieces, from piece i on:
\* the map, or the RuntimeError of the first piece with more than one
\* attribute name.
RECURSIVE PiecesMapFrom(_, _, _)
PiecesMapNext(pieces, i, map, result) ==
  IF Len(result) <= 1
  THEN PiecesMapFrom(pieces, i + 1, AppendMapEntry(map, result))
  ELSE [ok |-> FALSE, map |-> <<>>]

PiecesMapFrom(pieces, i, map) ==
  IF i > Len(pieces) THEN [ok |-> TRUE, map |-> map]
  ELSE PiecesMapNext(pieces, i, map, FindAll(pieces[i]))

PiecesMap(pieces) == PiecesMapFrom(pieces, 1, <<>>)

\* __init__ after its two loops: the instance, or the RuntimeError.
ConditionalEventFormatterInitOf(self, long, short) ==
  IF ~long.ok
  THEN [ok |-> FALSE, error |-> "Invalid format string piece", self |-> self]
  ELSE IF ~short.ok
  THEN [ok |-> FALSE, error |-> "Invalid short format string piece",
        self |-> self]
  ELSE [ok |-> TRUE, error |-> "",
        self |-> [self EXCEPT !.format_string_pieces_map = long.map,
                              !.format_string_short_pieces_map = short.map]]

\* ConditionalEventFormatter.__init__
ConditionalEventFormatterInit(cls) ==
  ConditionalEventFormatterInitOf(EventFormatterInit(cls),
                                  PiecesMap(cls.FORMAT_STRING_PIECES),
                                  PiecesMap(cls.FORMAT_STRING_SHORT_PIECES))

\* The piece kept when the attribute is set, whatever its value: hasattr in
\* place of getattr.
PieceIncludedIfSet(attribute_name, event_object) ==
  attribute_name = <<>> \/ HasAttr(event_object.attributes, attribute_name)

\* The condition under which GetMessages keeps a format string piece.
PieceIncluded(attribute_name, event_object) ==
  attribute_name = <<>> \/ Truthy(GetAttr(event_object, attribute_name))

\* The loop of GetMessages over a pieces map, from entry i on: the format
\* string pieces kept.  pieces[i] of an index the list lacks is the
\* IndexError of the subscript.
RECURSIVE StringPiecesFrom(_, _, _, _)
StringPiecesFrom(pieces, map, i, event_object) ==
  IF i > Len(map) THEN <<>>
  ELSE (IF PieceIncluded(map[i], event_object) THEN <<pieces[i]>> ELSE <<>>)
       \o StringPiecesFrom(pieces, map, i + 1, event_object)

\* The format string GetMessages composes of a list of pieces.
ComposeFormatString(pieces, map, separator, event_object) ==
  Join(separator, StringPiecesFrom(pieces, map, 1, event_object))

\* A format string is set only when pieces are kept: an empty composition
\* leaves the format string of the render before.
SetFormatStringsIfAny(cls, self, event_object) ==
  [self EXCEPT
     !.format_string =
        IF StringPiecesFrom(cls.FORMAT_STRING_PIECES,
                            self.format_string_pieces_map, 1,
                            event_object) = <<>>
        THEN @
        ELSE ComposeFormatString(cls.FORMAT_STRING_PIECES,
                                 self.format_string_pieces_map,
                                 cls.FORMAT_STRING_SEPARATOR, event_object),
     !.format_string_short =
        IF StringPiecesFrom(cls.FORMAT_STRING_SHORT_PIECES,
                            self.format_string_short_pieces_map, 1,
                            event_object) = <<>>
        THEN @
        ELSE ComposeFormatString(cls.FORMAT_STRING_SHORT_PIECES,
                                 self.format_string_short_pieces_map,
                                 cls.FORMAT_STRING_SEPARATOR, event_object)]

\* The instance after GetMessages has set its two format strings.
SetFormatStrings(cls, self, event_object) ==
  [self EXCEPT
     !.format_string =
        ComposeFormatString(cls.FORMAT_STRING_PIECES,
                            self.format_string_pieces_map,
                            cls.FORMAT_STRING_SEPARATOR, event_object),
     !.format_string_short =
        ComposeFormatString(cls.FORMAT_STRING_SHORT_PIECES,
                            self.format_string_short_pieces_map,
                            cls.FORMAT_STRING_SEPARATOR, event_object)]

\* The call of the base class GetMessages that ends
\* ConditionalEventFormatter.GetMessages.
SuperGetMessages(cls, after, event_object) ==
  [self |-> after, out |-> EventFormatterGetMessages(cls, after, event_object)]

\* ConditionalEventFormatter.GetMessages: the instance it leaves and what the
\* call gives.
ConditionalEventFormatterGetMessages(cls, self, event_object) ==
  SuperGetMessages(cls, SetFormatStrings(cls, self, event_object),
                   event_object)

\* formatter.GetMessages(event_object), by the class of the formatter.
GetMessagesOf(cls, self, event_object) ==
  IF cls.base = "ConditionalEventFormatter"
  THEN ConditionalEventFormatterGetMessages(cls, self, event_object)
  ELSE [self |-> self,
        out |-> EventFormatterGetMessages(cls, self, event_object)]

\* cls(): the constructor of a formatter class.
NewFormatter(cls) ==
  IF cls.base = "ConditionalEventFormatter"
  THEN ConditionalEventFormatterInit(cls)
  ELSE [ok |-> TRUE, error |-> "", self |-> EventFormatterInit(cls)]

(***************************************************************************)
(* The formatter classes: EventFormatter.classes maps a class name to one  *)
(* of these.  A class gives its base class and the class attributes it     *)
(* overrides.                                                              *)
(***************************************************************************)
DirectClass(name, data_type, format_string, format_string_short) ==
  [name |-> name, base |-> "EventFormatter", DATA_TYPE |-> data_type,
   FORMAT_STRING |-> format_string,
   FORMAT_STRING_SHORT |-> format_string_short,
   FORMAT_STRING_PIECES |-> <<>>,
   FORMAT_STRING_SHORT_PIECES |-> <<>>,
   FORMAT_STRING_SEPARATOR |-> <<>>]

ConditionalClass(name, data_type, pieces, short_pieces) ==
  [name |-> name, base |-> "ConditionalEventFormatter",
   DATA_TYPE |-> data_type,
   FORMAT_STRING |-> EventFormatterDefaults.FORMAT_STRING,
   FORMAT_STRING_SHORT |-> EventFormatterDefaults.FORMAT_STRING_SHORT,
   FORMAT_STRING_PIECES |-> pieces,
   FORMAT_STRING_SHORT_PIECES |-> short_pieces,
   FORMAT_STRING_SEPARATOR |->
     ConditionalEventFormatterDefaults.FORMAT_STRING_SEPARATOR]

\* class TextEventFormatter(EventFormatter)
TextEventFormatter ==
  DirectClass("TextEventFormatter", "text", <<"{","t","e","x","t","}">>,
              EventFormatterDefaults.FORMAT_STRING_SHORT)

\* The conditional formatter of printer jobs: one piece per attribute, and
\* the job name alone in the short message.
PrinterJobFormatter ==
  ConditionalClass("PrinterJobFormatter", "printer:job",
    << <<"U","s","e","r",":"," ","{","u","s","e","r","}">>,
       <<"O","w","n","e","r",":"," ","{","o","w","n","e","r","}">>,
       <<"J","o","b"," ","N","a","m","e",":"," ","{","j","o","b","_","n","a","m","e","}">>,
       <<"A","p","p","l","i","c","a","t","i","o","n",":"," ","{","a","p","p","l","i","c","a","t","i","o","n","}">>,
       <<"P","r","i","n","t","e","r",":"," ","{","p","r","i","n","t","e","r","_","i","d","}">> >>,
    << <<"J","o","b"," ","N","a","m","e",":"," ","{","j","o","b","_","n","a","m","e","}">> >>)

\* A second formatter of the data type text: a text piece, two gated pieces
\* and no short pieces of its own.
TextDetailFormatter ==
  ConditionalClass("TextDetailFormatter", "text",
    << <<"T","e","x","t",":">>, <<"{","t","e","x","t","}">>, <<"b","y"," ","{","u","s","e","r","}">> >>,
    ConditionalEventFormatterDefaults.FORMAT_STRING_SHORT_PIECES)

\* A formatter whose format strings hold line breaks, with a short format
\* string of its own.
NoteFormatter ==
  DirectClass("NoteFormatter", "note", <<"N","o","t","e",":","LF","{","b","o","d","y","}">>, <<"{","t","i","t","l","e","}","CR","LF">>)

\* A conditional formatter with two attribute names in one piece.
BrokenPieceFormatter ==
  ConditionalClass("BrokenPieceFormatter", "printer:job",
    << <<"{","u","s","e","r","}"," ","{","o","w","n","e","r","}">> >>,
    << <<"{","u","s","e","r","}">> >>)

\* A conditional formatter with two attribute names in one short piece.
BrokenShortPieceFormatter ==
  ConditionalClass("BrokenShortPieceFormatter", "note",
    << <<"{","b","o","d","y","}">> >>,
    << <<"{","t","i","t","l","e","}","{","b","o","d","y","}">> >>)

\* Every formatter class a program of the model may define.
ClassPool ==
  {TextEventFormatter, PrinterJobFormatter, TextDetailFormatter,
   NoteFormatter, BrokenPieceFormatter, BrokenShortPieceFormatter}

ClassNames == {cls.name : cls \in ClassPool}

ClassOf(name) == CHOOSE cls \in ClassPool : cls.name = name

(***************************************************************************)
(* The event objects the calls are made with.                              *)
(***************************************************************************)
EventObject(data_type, attributes) ==
  [data_type |-> data_type, attributes |-> attributes]

LongTextLen == 85

Events ==
  << \* 1: a printer job with its five attributes
     EventObject("printer:job",
       << <<<<"u","s","e","r">>, StrV(<<"m","o","x","i","l","o">>)>>,
          <<<<"o","w","n","e","r">>, StrV(<<"J","o","a","q","u","i","n"," ","M","o","r","e","n","o"," ","G","a","r","i","j","o">>)>>,
          <<<<"j","o","b","_","n","a","m","e">>, StrV(<<"A","s","s","i","g","n","m","e","n","t"," ","1">>)>>,
          <<<<"a","p","p","l","i","c","a","t","i","o","n">>, StrV(<<"L","i","b","r","e","O","f","f","i","c","e">>)>>,
          <<<<"p","r","i","n","t","e","r","_","i","d">>, StrV(<<"R","H","U","L","B","W">>)>> >>),
     \* 2: a printer job with the user alone
     EventObject("printer:job", << <<<<"u","s","e","r">>, StrV(<<"m","o","x","i","l","o">>)>> >>),
     \* 3: a printer job whose owner is None, whose job name is empty and
     \* whose number of copies is 0
     EventObject("printer:job",
       << <<<<"o","w","n","e","r">>, NoneV>>,
          <<<<"u","s","e","r">>, StrV(<<"m","o","x","i","l","o">>)>>,
          <<<<"j","o","b","_","n","a","m","e">>, StrV(<<>>)>>,
          <<<<"c","o","p","i","e","s">>, IntV(0)>> >>),
     \* 4, 5, 6: texts longer than, as long as and one longer than the limit
     \* of the short message
     EventObject("text", << <<<<"t","e","x","t">>, StrV(Rep("x", LongTextLen))>> >>),
     EventObject("text", << <<<<"t","e","x","t">>, StrV(Rep("x", ShortLimit))>> >>),
     EventObject("text", << <<<<"t","e","x","t">>, StrV(Rep("x", ShortLimit + 1))>> >>),
     \* 7: a text with a line break in it
     EventObject("text",
       << <<<<"t","e","x","t">>, StrV(<<"a","CR","LF","b">>)>>, <<<<"u","s","e","r">>, StrV(<<"m","o","x","i","l","o">>)>> >>),
     \* 8: a text event object without the attribute text
     EventObject("text",
       << <<<<"c","o","p","i","e","s">>, IntV(12)>>, <<<<"b","o","d","y">>, StrV(<<"l","1","LF","l","2">>)>>,
          <<<<"o","w","n","e","r">>, NoneV>> >>),
     \* 9: a data type no formatter is defined for
     EventObject("unknown:type", << <<<<"t","e","x","t">>, StrV(<<"h","i">>)>> >>),
     \* 10: no data type
     EventObject(None, <<>>),
     \* 11: a note without its title
     EventObject("note", << <<<<"b","o","d","y">>, StrV(<<"b">>)>> >>),
     \* 12: a note without its body
     EventObject("note", << <<<<"t","i","t","l","e">>, StrV(<<"t","LF">>)>> >>) >>

EventIds == 1..Len(Events)

(***************************************************************************)
(* State                                                                   *)
(***************************************************************************)
VARIABLES
  classes,               \* EventFormatter.classes: the class names, in the
                         \* order the dictionary iterates them
  has_event_formatters,  \* hasattr(EventFormatterManager, 'event_formatters')
  event_formatters,      \* the dictionary: data type -> the class name of
                         \* the formatter instance (None for the key None)
  formatters,            \* the instances event_formatters holds, by class
                         \* name: their instance attributes
  warnings,              \* what logging.warning was called with
  result,                \* the last call and what it gave; stale says
                         \* whether the formatter that rendered held, as
                         \* the call began, a format string an earlier
                         \* GetMessages joined for other attributes
  threads                \* the calls that overlap, by thread: where each
                         \* thread is in its call and the locals it holds
                         \* (empty where every call runs to its end in one
                         \* step)

vars == <<classes, has_event_formatters, event_formatters, formatters,
          warnings, result, threads>>

MaxClasses == 3

\* The orders EventFormatter.classes may iterate in: the classes a program
\* defines are TextEventFormatter, which eventdata.py itself defines, and
\* at most MaxClasses - 1 more.
ClassOrders ==
  {order \in UNION {[1..n -> ClassNames] : n \in 1..MaxClasses} :
     /\ \E i \in DOMAIN order : order[i] = TextEventFormatter.name
     /\ \A i, j \in DOMAIN order : i # j => order[i] # order[j]}

NoCall ==
  [op |-> "none", event |-> 0, cls |-> None, kind |-> "none",
   msg |-> <<>>, msg_short |-> <<>>, built |-> FALSE, stale |-> FALSE]

Init ==
  /\ classes \in ClassOrders
  /\ has_event_formatters = FALSE
  /\ event_formatters = <<>>
  /\ formatters = <<>>
  /\ warnings = <<>>
  /\ result = NoCall
  /\ threads = <<>>

(***************************************************************************)
(* EventFormatterManager                                                   *)
(***************************************************************************)
\* The registry as one value.
Registry ==
  [has |-> has_event_formatters, event_formatters |-> event_formatters,
   formatters |-> formatters, warnings |-> warnings]

\* The check of a duplicate left out: a later formatter of a data type
\* replaces the one in the dictionary.
NeverDuplicate(map, data_type) == FALSE

\* formatter.DATA_TYPE in cls.event_formatters
IsDuplicate(map, data_type) == data_type \in DOMAIN map

\* logging.warning of the RuntimeError caught.
LogWarning(reg, error, cls_formatter, other) ==
  [reg EXCEPT !.warnings =
     Append(@, [error |-> error, cls |-> cls_formatter, other |-> other])]

\* The body of the loop of GetFormatter for the class cls of name
\* cls_formatter, new being what its constructor gave: the formatter is put
\* in the dictionary; the RuntimeError of the constructor or of a duplicate
\* data type is logged and the class skipped.
RegisterNew(reg, cls_formatter, cls, new) ==
  IF ~new.ok THEN LogWarning(reg, new.error, cls_formatter, None)
  ELSE IF IsDuplicate(reg.event_formatters, cls.DATA_TYPE)
  THEN LogWarning(reg, "duplicate", cls_formatter,
                  reg.event_formatters[cls.DATA_TYPE])
  ELSE [reg EXCEPT
          !.event_formatters = (cls.DATA_TYPE :> cls_formatter) @@ @,
          !.formatters = (cls_formatter :> new.self) @@ @]

RegisterClass(reg, cls) == RegisterNew(reg, cls.name, cls, NewFormatter(cls))

RegisterFormatter(reg, cls_formatter) ==
  RegisterClass(reg, ClassOf(cls_formatter))

\* The loop of GetFormatter over EventFormatter.classes, from class i on.
RECURSIVE RegisterFrom(_, _, _)
RegisterFrom(reg, order, i) ==
  IF i > Len(order) THEN reg
  ELSE RegisterFrom(RegisterFormatter(reg, order[i]), order, i + 1)

\* cls.event_formatters.setdefault(None)
SetDefaultNone(reg) ==
  IF None \in DOMAIN reg.event_formatters THEN reg
  ELSE [reg EXCEPT !.event_formatters = (None :> None) @@ @]

\* The first branch of GetFormatter: the dictionary is built.
BuildEventFormatters(reg, order) ==
  SetDefaultNone(RegisterFrom([reg EXCEPT !.has = TRUE,
                                          !.event_formatters = <<>>,
                                          !.formatters = <<>>], order, 1))

\* cls.event_formatters[key], built saying whether the call built the
\* dictionary: the value, or the KeyError of a key the dictionary lacks.
Subscript(reg, key, built) ==
  IF key \in DOMAIN reg.event_formatters
  THEN [reg |-> reg, kind |-> "return",
        formatter |-> reg.event_formatters[key], built |-> built]
  ELSE [reg |-> reg, kind |-> "KeyError", formatter |-> None,
        built |-> built]

\* EventFormatterManager.GetFormatter: the registry it leaves and what the
\* call gives.
GetFormatterOf(reg, order, event_object) ==
  Subscript(IF ~reg.has THEN BuildEventFormatters(reg, order) ELSE reg,
            event_object.data_type, ~reg.has)

\* GetMessageStrings after formatter.GetMessages.
AfterGetMessages(found, call) ==
  [reg |-> [found.reg EXCEPT !.formatters[found.formatter] = call.self],
   formatter |-> found.formatter, built |-> found.built, out |-> call.out]

\* GetMessageStrings after GetFormatter.
AfterGetFormatter(found, event_object) ==
  IF found.kind # "return"
  THEN [reg |-> found.reg, formatter |-> None, built |-> found.built,
        out |-> Raised(found.kind)]
  ELSE IF found.formatter = None
  THEN [reg |-> found.reg, formatter |-> None, built |-> found.built,
        out |-> [kind |-> "return", msg |-> <<>>, msg_short |-> <<>>]]
  ELSE AfterGetMessages(found,
         GetMessagesOf(ClassOf(found.formatter),
                       found.reg.formatters[found.formatter], event_object))

\* EventFormatterManager.GetMessageStrings
GetMessageStringsOf(reg, order, event_object) ==
  AfterGetFormatter(GetFormatterOf(reg, order, event_object), event_object)

(***************************************************************************)
(* Actions: one per call.                                                  *)
(***************************************************************************)
SetRegistry(reg) ==
  /\ has_event_formatters' = reg.has
  /\ event_formatters' = reg.event_formatters
  /\ formatters' = reg.formatters
  /\ warnings' = reg.warnings

\* self.format_string of the formatter of this name, as a call begins, is
\* neither the FORMAT_STRING of construction nor the string the call joins:
\* an earlier GetMessages left it.
HeldStale(name, self) ==
  /\ name \in DOMAIN formatters
  /\ formatters[name].format_string # ClassOf(name).FORMAT_STRING
  /\ formatters[name].format_string # self.format_string

GetFormatterDone(e, call) ==
  /\ SetRegistry(call.reg)
  /\ result' = [op |-> "GetFormatter", event |-> e, cls |-> call.formatter,
                kind |-> call.kind, msg |-> <<>>, msg_short |-> <<>>,
                built |-> call.built, stale |-> FALSE]
  /\ UNCHANGED <<classes, threads>>

\* EventFormatterManager.GetFormatter(Events[e])
GetFormatter(e) ==
  GetFormatterDone(e, GetFormatterOf(Registry, classes, Events[e]))

GetMessageStringsDone(e, call) ==
  /\ SetRegistry(call.reg)
  /\ result' = [op |-> "GetMessageStrings", event |-> e,
                cls |-> call.formatter, kind |-> call.out.kind,
                msg |-> call.out.msg, msg_short |-> call.out.msg_short,
                built |-> call.built,
                stale |-> /\ call.formatter # None
                          /\ HeldStale(call.formatter,
                                       call.reg.formatters[call.formatter])]
  /\ UNCHANGED <<classes, threads>>

\* EventFormatterManager.GetMessageStrings(Events[e])
GetMessageStrings(e) ==
  GetMessageStringsDone(e, GetMessageStringsOf(Registry, classes, Events[e]))

GetMessagesDone(name, e, call) ==
  /\ formatters' = [formatters EXCEPT ![name] = call.self]
  /\ result' = [op |-> "GetMessages", event |-> e, cls |-> name,
                kind |-> call.out.kind, msg |-> call.out.msg,
                msg_short |-> call.out.msg_short, built |-> FALSE,
                stale |-> HeldStale(name, call.self)]
  /\ UNCHANGED <<classes, has_event_formatters, event_formatters, warnings,
                 threads>>

\* formatter.GetMessages(Events[e]) on the formatter of class name, which a
\* caller holds from an earlier GetFormatter.
GetMessages(name, e) ==
  /\ has_event_formatters
  /\ name \in DOMAIN formatters
  /\ GetMessagesDone(name, e,
       GetMessagesOf(ClassOf(name), formatters[name], Events[e]))

Next ==
  \/ \E e \in EventIds : GetFormatter(e)
  \/ \E e \in EventIds : GetMessageStrings(e)
  \/ \E name \in ClassNames, e \in EventIds : GetMessages(name, e)

Spec == Init /\ [][Next]_vars

(***************************************************************************)
(* Threads.  Two threads make calls that overlap; a step of a thread is    *)
(* the code up to and including its next read or write of an attribute    *)
(* the threads share.                                                      *)
(***************************************************************************)
Threads == {"t1", "t2"}

\* The frame of a thread that is in no call.
Idle ==
  [pc |-> "idle", event |-> 0, cls |-> None, i |-> 0, key |-> <<>>,
   kind |-> "none", msg |-> <<>>, msg_short |-> <<>>]

MaxThreadClasses == 2

\* The programs the threads run in: TextEventFormatter and at most
\* MaxThreadClasses - 1 more classes.
ThreadClassOrders ==
  {order \in ClassOrders : Len(order) <= MaxThreadClasses}

At(t, pc) == threads[t].pc = pc

\* The thread goes on with this frame.
Goto(t, frame) == threads' = [threads EXCEPT ![t] = frame]

\* The call of the thread ends: it raises kind, or returns.
Done(frame, kind) == [frame EXCEPT !.pc = "done", !.kind = kind]

\* The formatter instance, its class and the event object of the call the
\* thread is in.
ThreadSelf(t) == formatters[threads[t].cls]
ThreadClass(t) == ClassOf(threads[t].cls)
ThreadEvent(t) == Events[threads[t].event]

(***************************************************************************)
(* formatter.GetMessages, step by step                                     *)
(***************************************************************************)
\* The registry a first GetFormatter has built of the classes.
BuiltRegistry(order) ==
  BuildEventFormatters([has |-> FALSE, event_formatters |-> <<>>,
                        formatters |-> <<>>, warnings |-> <<>>], order)

InitBuilt(order, reg) ==
  /\ classes = order
  /\ has_event_formatters = reg.has
  /\ event_formatters = reg.event_formatters
  /\ formatters = reg.formatters
  /\ warnings = reg.warnings
  /\ result = NoCall
  /\ threads = [t \in Threads |-> Idle]

\* The registry is built and no thread is in a call.
InitRender ==
  \E order \in ThreadClassOrders : InitBuilt(order, BuiltRegistry(order))

\* The thread calls GetMessages(Events[e]) of the formatter of class name,
\* which it holds from GetFormatter.
BeginGetMessages(t, name, e) ==
  /\ At(t, "idle")
  /\ name \in DOMAIN formatters
  /\ Goto(t, [Idle EXCEPT
                !.pc = IF ClassOf(name).base = "ConditionalEventFormatter"
                       THEN "join" ELSE "check",
                !.cls = name, !.event = e])
  /\ UNCHANGED <<classes, has_event_formatters, event_formatters, formatters,
                 warnings, result>>

\* ConditionalEventFormatter.GetMessages, the first loop and the assignment
\* of self.format_string.
JoinFormatString(t) ==
  /\ At(t, "join")
  /\ formatters' =
       [formatters EXCEPT ![threads[t].cls].format_string =
          ComposeFormatString(ThreadClass(t).FORMAT_STRING_PIECES,
                              ThreadSelf(t).format_string_pieces_map,
                              ThreadClass(t).FORMAT_STRING_SEPARATOR,
                              ThreadEvent(t))]
  /\ Goto(t, [threads[t] EXCEPT !.pc = "join_short"])
  /\ UNCHANGED <<classes, has_event_formatters, event_formatters, warnings,
                 result>>

\* The second loop and the assignment of self.format_string_short.
JoinFormatStringShort(t) ==
  /\ At(t, "join_short")
  /\ formatters' =
       [formatters EXCEPT ![threads[t].cls].format_string_short =
          ComposeFormatString(ThreadClass(t).FORMAT_STRING_SHORT_PIECES,
                              ThreadSelf(t).format_string_short_pieces_map,
                              ThreadClass(t).FORMAT_STRING_SEPARATOR,
                              ThreadEvent(t))]
  /\ Goto(t, [threads[t] EXCEPT !.pc = "check"])
  /\ UNCHANGED <<classes, has_event_formatters, event_formatters, warnings,
                 result>>

\* EventFormatter.GetMessages, the check of the data type.
CheckDataType(t) ==
  /\ At(t, "check")
  /\ Goto(t, IF DataTypeMatches(ThreadClass(t), ThreadEvent(t))
             THEN [threads[t] EXCEPT !.pc = "format"]
             ELSE Done(threads[t], "WrongFormatter"))
  /\ UNCHANGED <<classes, has_event_formatters, event_formatters, formatters,
                 warnings, result>>

\* The frame after self.format_string.format gave r: the message stripped,
\* the KeyError caught, or the exception raised.
AfterFormat(frame, r) ==
  CASE r.kind = "ok" ->
         [frame EXCEPT !.pc = "test_short", !.msg = StripCRLF(r.s)]
    [] r.kind = "KeyError" ->
         [frame EXCEPT !.pc = "format_error", !.key = r.key]
    [] OTHER -> Done(frame, r.kind)

\* The try: self.format_string is read and formatted.
FormatLong(t) ==
  /\ At(t, "format")
  /\ Goto(t, AfterFormat(threads[t],
                         Format(ThreadSelf(t).format_string,
                                GetValues(ThreadEvent(t)))))
  /\ UNCHANGED <<classes, has_event_formatters, event_formatters, formatters,
                 warnings, result>>

\* The except KeyError branch: self.format_string is read again for the
\* message, which is stripped.
FormatLongError(t) ==
  /\ At(t, "format_error")
  /\ Goto(t, [threads[t] EXCEPT
                !.pc = "test_short",
                !.msg = StripCRLF(FormatErrorMessage(threads[t].key,
                                    ThreadSelf(t).format_string,
                                    ThreadEvent(t)))])
  /\ UNCHANGED <<classes, has_event_formatters, event_formatters, formatters,
                 warnings, result>>

\* if self.format_string_short: the else branch returns the short message
\* derived from the long one.
TestShort(t) ==
  /\ At(t, "test_short")
  /\ Goto(t, IF ThreadSelf(t).format_string_short # <<>>
             THEN [threads[t] EXCEPT !.pc = "format_short"]
             ELSE Done([threads[t] EXCEPT
                          !.msg_short = ShortFromLong(threads[t].msg)],
                       "return"))
  /\ UNCHANGED <<classes, has_event_formatters, event_formatters, formatters,
                 warnings, result>>

\* The frame after self.format_string_short.format gave r.
AfterFormatShort(frame, r) ==
  CASE r.kind = "ok" ->
         Done([frame EXCEPT !.msg_short = StripCRLF(r.s)], "return")
    [] r.kind = "KeyError" -> [frame EXCEPT !.pc = "short_error"]
    [] OTHER -> Done([frame EXCEPT !.msg = <<>>], r.kind)

\* The second try: self.format_string_short is read and formatted.
FormatShort(t) ==
  /\ At(t, "format_short")
  /\ Goto(t, AfterFormatShort(threads[t],
                              Format(ThreadSelf(t).format_string_short,
                                     Attributes(ThreadEvent(t)))))
  /\ UNCHANGED <<classes, has_event_formatters, event_formatters, formatters,
                 warnings, result>>

\* The second except KeyError branch: self.format_string_short is read
\* again.
FormatShortError(t) ==
  /\ At(t, "short_error")
  /\ Goto(t, Done([threads[t] EXCEPT
                     !.msg_short =
                        UnableToFormat(ThreadSelf(t).format_string_short)],
                  "return"))
  /\ UNCHANGED <<classes, has_event_formatters, event_formatters, formatters,
                 warnings, result>>

NextRender ==
  \/ \E t \in Threads, name \in ClassNames, e \in EventIds :
       BeginGetMessages(t, name, e)
  \/ \E t \in Threads : JoinFormatString(t)
  \/ \E t \in Threads : JoinFormatStringShort(t)
  \/ \E t \in Threads : CheckDataType(t)
  \/ \E t \in Threads : FormatLong(t)
  \/ \E t \in Threads : FormatLongError(t)
  \/ \E t \in Threads : TestShort(t)
  \/ \E t \in Threads : FormatShort(t)
  \/ \E t \in Threads : FormatShortError(t)

SpecRender == InitRender /\ [][NextRender]_vars

(***************************************************************************)
(* EventFormatterManager.GetFormatter, step by step                        *)
(***************************************************************************)
\* One event object per data type: GetFormatter reads nothing of an event
\* object but its data_type.
DataTypeEvents ==
  {e \in EventIds :
     \A d \in 1..(e - 1) : Events[d].data_type # Events[e].data_type}

\* No call has been made and no thread is in a call.
InitBuild ==
  /\ classes \in ThreadClassOrders
  /\ has_event_formatters = FALSE
  /\ event_formatters = <<>>
  /\ formatters = <<>>
  /\ warnings = <<>>
  /\ result = NoCall
  /\ threads = [t \in Threads |-> Idle]

\* The thread calls GetFormatter(Events[e]).
BeginGetFormatter(t, e) ==
  /\ At(t, "idle")
  /\ Goto(t, [Idle EXCEPT !.pc = "hasattr", !.event = e])
  /\ UNCHANGED <<classes, has_event_formatters, event_formatters, formatters,
                 warnings, result>>

\* if not hasattr(cls, 'event_formatters')
TestHasAttr(t) ==
  /\ At(t, "hasattr")
  /\ Goto(t, [threads[t] EXCEPT
                !.pc = IF has_event_formatters THEN "subscript" ELSE "assign"])
  /\ UNCHANGED <<classes, has_event_formatters, event_formatters, formatters,
                 warnings, result>>

\* cls.event_formatters = {}: the attribute is set to a new, empty
\* dictionary, and the loop begins.
AssignEmpty(t) ==
  /\ At(t, "assign")
  /\ has_event_formatters' = TRUE
  /\ event_formatters' = <<>>
  /\ formatters' = <<>>
  /\ Goto(t, [threads[t] EXCEPT !.pc = "loop", !.i = 1])
  /\ UNCHANGED <<classes, warnings, result>>

\* The frame of a thread that goes on to the next class of the loop, or to
\* the statement after it.
NextClass(frame, order) ==
  IF frame.i + 1 > Len(order)
  THEN [frame EXCEPT !.pc = "setdefault"]
  ELSE [frame EXCEPT !.pc = "loop", !.i = frame.i + 1]

\* The class the loop of the thread is at.
LoopClass(t) == ClassOf(classes[threads[t].i])

\* The try of the loop up to the check of a duplicate, new being what the
\* constructor gave: a RuntimeError is logged and the loop goes on; a
\* formatter of a data type the dictionary lacks is to be stored.
ConstructAndCheckOf(t, cls, new) ==
  IF ~new.ok
  THEN /\ SetRegistry(LogWarning(Registry, new.error, cls.name, None))
       /\ Goto(t, NextClass(threads[t], classes))
  ELSE IF IsDuplicate(event_formatters, cls.DATA_TYPE)
  THEN /\ SetRegistry(LogWarning(Registry, "duplicate", cls.name,
                                 event_formatters[cls.DATA_TYPE]))
       /\ Goto(t, NextClass(threads[t], classes))
  ELSE /\ Goto(t, [threads[t] EXCEPT !.pc = "store"])
       /\ UNCHANGED <<has_event_formatters, event_formatters, formatters,
                      warnings>>

ConstructAndCheck(t) ==
  /\ At(t, "loop")
  /\ ConstructAndCheckOf(t, LoopClass(t), NewFormatter(LoopClass(t)))
  /\ UNCHANGED <<classes, result>>

\* The dictionary with the formatter of class name under data_type.
Stored(map, data_type, name) == (data_type :> name) @@ map

\* The instances a dictionary holds, self being the new one of class name.
Held(map, name, self) ==
  [n \in {map[k] : k \in DOMAIN map} \ {None} |->
     IF n = name THEN self ELSE formatters[n]]

\* cls.event_formatters[formatter.DATA_TYPE] = formatter
StoreFormatterOf(t, cls, self) ==
  /\ event_formatters' = Stored(event_formatters, cls.DATA_TYPE, cls.name)
  /\ formatters' = Held(Stored(event_formatters, cls.DATA_TYPE, cls.name),
                        cls.name, self)
  /\ Goto(t, NextClass(threads[t], classes))

StoreFormatter(t) ==
  /\ At(t, "store")
  /\ StoreFormatterOf(t, LoopClass(t), NewFormatter(LoopClass(t)).self)
  /\ UNCHANGED <<classes, has_event_formatters, warnings, result>>

\* cls.event_formatters.setdefault(None)
SetDefault(t) ==
  /\ At(t, "setdefault")
  /\ SetRegistry(SetDefaultNone(Registry))
  /\ Goto(t, [threads[t] EXCEPT !.pc = "subscript"])
  /\ UNCHANGED <<classes, result>>

\* return cls.event_formatters[event_object.data_type]
ReturnSubscript(t) ==
  /\ At(t, "subscript")
  /\ Goto(t, IF ThreadEvent(t).data_type \in DOMAIN event_formatters
             THEN Done([threads[t] EXCEPT
                          !.cls = event_formatters[ThreadEvent(t).data_type]],
                       "return")
             ELSE Done(threads[t], "KeyError"))
  /\ UNCHANGED <<classes, has_event_formatters, event_formatters, formatters,
                 warnings, result>>

NextBuild ==
  \/ \E t \in Threads, e \in DataTypeEvents : BeginGetFormatter(t, e)
  \/ \E t \in Threads : TestHasAttr(t)
  \/ \E t \in Threads : AssignEmpty(t)
  \/ \E t \in Threads : ConstructAndCheck(t)
  \/ \E t \in Threads : StoreFormatter(t)
  \/ \E t \in Threads : SetDefault(t)
  \/ \E t \in Threads : ReturnSubscript(t)

SpecBuild == InitBuild /\ [][NextBuild]_vars

(***************************************************************************)
(* Properties                                                              *)
(***************************************************************************)
\* The last call rendered: a formatter's GetMessages ran, on its own or
\* under GetMessageStrings.
Rendered == result.op \in {"GetMessages", "GetMessageStrings"} /\ result.cls # None

\* The class and the event object of the last call.
ResultClass == ClassOf(result.cls)
ResultEvent == Events[result.event]

\* The constructor of the class of this name raises no RuntimeError.
Constructs(name) == NewFormatter(ClassOf(name)).ok

\* The classes before index i of the order that construct and have the data
\* type of class order[i].
EarlierClaimants(order, i) ==
  {j \in 1..(i - 1) :
     Constructs(order[j])
     /\ ClassOf(order[j]).DATA_TYPE = ClassOf(order[i]).DATA_TYPE}

\* C1: once the first GetFormatter has built the registry, each data type
\* maps to one formatter: that of the first class, in the order of the
\* build, that claims the data type; every later claimant is left out (and
\* logged), none overwrites the first.
C1_FirstClaimantKept ==
  has_event_formatters =>
    /\ \A i \in DOMAIN classes :
         Constructs(classes[i]) =>
           /\ ClassOf(classes[i]).DATA_TYPE \in DOMAIN event_formatters
           /\ (event_formatters[ClassOf(classes[i]).DATA_TYPE] = classes[i])
                <=> (EarlierClaimants(classes, i) = {})
           /\ (classes[i] \in DOMAIN formatters)
                <=> (EarlierClaimants(classes, i) = {})
    /\ \A dt \in DOMAIN event_formatters \ {None} :
         \E i \in DOMAIN classes :
           classes[i] = event_formatters[dt] /\ ClassOf(classes[i]).DATA_TYPE = dt

\* Two classes of one data type were built into the registry and the data
\* type was resolved.
C1_Witness ==
  /\ has_event_formatters
  /\ \E i, j \in DOMAIN classes :
       /\ i < j
       /\ Constructs(classes[i]) /\ Constructs(classes[j])
       /\ ClassOf(classes[i]).DATA_TYPE = ClassOf(classes[j]).DATA_TYPE
       /\ result.op = "GetFormatter" /\ result.kind = "return"
       /\ result.cls = classes[i]

\* No formatter of the registry has the data type of the event object.
Unmatched(event_object) ==
  \A name \in DOMAIN formatters :
    ClassOf(name).DATA_TYPE # event_object.data_type

\* C2: for an event object whose data type no registered formatter claims,
\* GetFormatter returns None and GetMessageStrings returns the pair of empty
\* strings; neither raises.
C2_UnmatchedGivesNone ==
  (result.op \in {"GetFormatter", "GetMessageStrings"}
   /\ Unmatched(ResultEvent)) =>
    /\ result.kind = "return"
    /\ result.cls = None
    /\ result.msg = <<>> /\ result.msg_short = <<>>

\* The classes of the order hold a construction-time error: a constructor
\* that raises, or a data type claimed a second time.
ConstructionError(order) ==
  \E i \in DOMAIN order :
    ~Constructs(order[i]) \/ EarlierClaimants(order, i) # {}

\* C3: the call that builds the registry raises RuntimeError when a
\* formatter's constructor fails or its data type is registered already;
\* the error is not swallowed.
C3_ConstructionErrorRaised ==
  (result.built /\ ConstructionError(classes)) => result.kind = "RuntimeError"

\* The attribute is set on the event object and its value is truthy.
PresentTruthy(event_object, attribute_name) ==
  \E k \in DOMAIN event_object.attributes :
    /\ event_object.attributes[k][1] = attribute_name
    /\ event_object.attributes[k][2] \notin {NoneV, StrV(<<>>), IntV(0)}

\* The indices of the pieces whose plan entry is no gate or a gate the event
\* object passes.
KeptPieces(plan, event_object) ==
  {i \in DOMAIN plan : plan[i] = <<>> \/ PresentTruthy(event_object, plan[i])}

\* The pieces of the indices kept, in their order.
PiecesOf(pieces, kept) ==
  [n \in 1..Cardinality(kept) |->
     pieces[CHOOSE i \in kept : Cardinality({j \in kept : j < i}) = n - 1]]

\* The effective template of a list of pieces.
EffectiveTemplate(pieces, plan, separator, event_object) ==
  Join(separator, PiecesOf(pieces, KeptPieces(plan, event_object)))

\* C4: after a conditional formatter has rendered an event object, its
\* long template is the pieces, in their order and joined by the separator,
\* whose plan entry is no gate or whose gating attribute is set and truthy
\* on the event object, and so is its short template of the short pieces;
\* the printer job with its five attributes gives every piece in the long
\* message and the job name alone in the short one.
C4_EffectiveTemplate ==
  (Rendered /\ ResultClass.base = "ConditionalEventFormatter") =>
    /\ formatters[result.cls].format_string =
         EffectiveTemplate(ResultClass.FORMAT_STRING_PIECES,
                           formatters[result.cls].format_string_pieces_map,
                           ResultClass.FORMAT_STRING_SEPARATOR, ResultEvent)
    /\ formatters[result.cls].format_string_short =
         EffectiveTemplate(ResultClass.FORMAT_STRING_SHORT_PIECES,
                           formatters[result.cls].format_string_short_pieces_map,
                           ResultClass.FORMAT_STRING_SEPARATOR, ResultEvent)
    /\ (result.cls = PrinterJobFormatter.name /\ result.event = 1) =>
         /\ result.kind = "return"
         /\ result.msg = <<"U","s","e","r",":"," ","m","o","x","i","l","o"," ","O","w","n","e","r",":"," ","J","o","a","q","u","i","n"," ","M","o","r","e","n","o"," ","G","a","r","i","j","o"," ","J","o","b"," ","N","a","m","e",":"," ","A","s","s","i","g","n","m","e","n","t"," ","1"," ","A","p","p","l","i","c","a","t","i","o","n",":"," ","L","i","b","r","e","O","f","f","i","c","e"," ","P","r","i","n","t","e","r",":"," ","R","H","U","L","B","W">>
         /\ result.msg_short = <<"J","o","b"," ","N","a","m","e",":"," ","A","s","s","i","g","n","m","e","n","t"," ","1">>

\* The printer job formatter rendered the job whose owner is None and whose
\* job name is empty: both pieces are dropped.
C4_Witness ==
  /\ Rendered /\ result.cls = PrinterJobFormatter.name /\ result.event = 3
  /\ result.kind = "return"
  /\ result.msg = <<"U","s","e","r",":"," ","m","o","x","i","l","o">>

\* s holds sub as a contiguous part.
Contains(s, sub) ==
  \E i \in 1..(Len(s) - Len(sub) + 1) : SubSeq(s, i, i + Len(sub) - 1) = sub

\* The attribute names a template references, in their order.
TemplateFields(tpl) ==
  [i \in 1..Len(FindAll(tpl)) |->
     SubSeq(FindAll(tpl)[i], 2, Len(FindAll(tpl)[i]) - 1)]

\* The event object lacks an attribute the template references.
Lacks(tpl, event_object) ==
  \E i \in DOMAIN TemplateFields(tpl) :
    ~HasAttr(event_object.attributes, TemplateFields(tpl)[i])

\* The first attribute, in the order of the template, the event object
\* lacks.
FirstMissing(tpl, event_object) ==
  TemplateFields(tpl)[
    CHOOSE i \in DOMAIN TemplateFields(tpl) :
      /\ ~HasAttr(event_object.attributes, TemplateFields(tpl)[i])
      /\ \A j \in 1..(i - 1) :
           HasAttr(event_object.attributes, TemplateFields(tpl)[j])]

\* The degraded long message of a template and an event object that lacks
\* the attribute key.
DegradedMessage(key, tpl, event_object) ==
  StripCRLF(
    Join(<<" ">>,
      << <<"F","o","r","m","a","t"," ","e","r","r","o","r",":"," ","[","u","'">> \o key \o <<"'","]"," ","f","o","r",":"," ","<">> \o tpl \o <<">">> >>
      \o [i \in DOMAIN event_object.attributes |->
            event_object.attributes[i][1] \o <<":", " ">>
            \o ValueToStr(event_object.attributes[i][2])]))

\* The long and the short template the last render used.
ResultTemplate == formatters[result.cls].format_string
ResultShortTemplate == formatters[result.cls].format_string_short

\* The last call rendered an event object of the formatter's data type.
RenderedOwn == Rendered /\ ResultClass.DATA_TYPE = ResultEvent.data_type

\* C5 (as amended): for an event object of the formatter's data type that
\* lacks an attribute of the long template, GetMessages does not raise; its
\* long message is "Format error: [<repr of the missing key>] for:
\* <<template>>", then the name: value dump of every attribute joined by
\* spaces, the whole with its CR and LF removed.  When a short template
\* references a missing attribute the short message is "Unable to format
\* string: <template>".
C5_DegradedMessage ==
  RenderedOwn =>
    /\ Lacks(ResultTemplate, ResultEvent) =>
         /\ result.kind = "return"
         /\ result.msg =
              DegradedMessage(FirstMissing(ResultTemplate, ResultEvent),
                              ResultTemplate, ResultEvent)
         /\ Contains(result.msg, FirstMissing(ResultTemplate, ResultEvent))
         /\ Contains(result.msg, StripCRLF(ResultTemplate))
    /\ Lacks(ResultShortTemplate, ResultEvent) =>
         /\ result.kind = "return"
         /\ result.msg_short =
              <<"U","n","a","b","l","e"," ","t","o"," ","f","o","r","m","a","t"," ","s","t","r","i","n","g",":"," ">> \o ResultShortTemplate

\* The note formatter rendered the note without its body.
C5_Witness ==
  /\ RenderedOwn /\ result.cls = NoteFormatter.name /\ result.event = 12
  /\ Lacks(ResultTemplate, ResultEvent)
  /\ result.kind = "return"

\* C5 (as claimed): for an event object of the formatter's data type that
\* lacks an attribute of the long template, GetMessages does not raise and
\* its long message holds the missing key name and the original template
\* text; when a short template references a missing attribute the short
\* message is "Unable to format string: <template>".
C5_DegradedHoldsTemplate ==
  RenderedOwn =>
    /\ Lacks(ResultTemplate, ResultEvent) =>
         /\ result.kind = "return"
         /\ Contains(result.msg, FirstMissing(ResultTemplate, ResultEvent))
         /\ Contains(result.msg, ResultTemplate)
    /\ Lacks(ResultShortTemplate, ResultEvent) =>
         /\ result.kind = "return"
         /\ result.msg_short =
              <<"U","n","a","b","l","e"," ","t","o"," ","f","o","r","m","a","t"," ","s","t","r","i","n","g",":"," ">> \o ResultShortTemplate

\* What the formatter of this class gives for the event object when it is
\* its first render after construction.
FirstRender(name, e) ==
  GetMessagesOf(ClassOf(name), NewFormatter(ClassOf(name)).self, Events[e]).out

\* C6: whatever renders came before it, a render of an event object by a
\* formatter gives the pair, or the exception, that the formatter gives for
\* that event object on its first render after construction: no state a
\* render leaves changes a later result.
C6_RenderIdempotent ==
  Rendered =>
    [kind |-> result.kind, msg |-> result.msg,
     msg_short |-> result.msg_short] = FirstRender(result.cls, result.event)

\* The printer job formatter, holding the format string an earlier render
\* joined for a job of other attributes, rendered the job without a job
\* name: no short piece is kept.
C6_Witness ==
  /\ Rendered /\ result.cls = PrinterJobFormatter.name /\ result.event = 2
  /\ result.stale
  /\ result.kind = "return"
  /\ result.msg_short = <<"U","s","e","r",":"," ","m","o","x","i","l","o">>

\* C7: when the short template of the render is empty, the short message
\* is the long message if that has at most 80 characters, and otherwise
\* its first 77 characters and "...": 80 characters.
C7_ShortFromLong ==
  (Rendered /\ result.kind = "return" /\ ResultShortTemplate = <<>>) =>
    /\ Len(result.msg) <= ShortLimit => result.msg_short = result.msg
    /\ Len(result.msg) > ShortLimit =>
         /\ Len(result.msg_short) = ShortLimit
         /\ \A i \in 1..ShortKeep : result.msg_short[i] = result.msg[i]
         /\ \A i \in (ShortKeep + 1)..ShortLimit : result.msg_short[i] = "."
    /\ Len(result.msg_short) <= ShortLimit

\* A long message of more than 80 characters was cut.
C7_Witness ==
  /\ Rendered /\ result.kind = "return" /\ ResultShortTemplate = <<>>
  /\ Len(result.msg) = LongTextLen
  /\ Len(result.msg_short) = ShortLimit

C9_WrongFormatter ==
  Rendered =>
    /\ ResultEvent.data_type # ResultClass.DATA_TYPE =>
         /\ result.kind = "WrongFormatter"
         /\ result.msg = <<>> /\ result.msg_short = <<>>
    /\ result.kind = "return" =>
         ResultEvent.data_type = ResultClass.DATA_TYPE

\* A conditional formatter was given an event object of another data type.
C9_Witness ==
  /\ Rendered
  /\ ResultClass.base = "ConditionalEventFormatter"
  /\ ResultEvent.data_type # ResultClass.DATA_TYPE
  /\ result.kind = "WrongFormatter"

\* s[b..k] is a placeholder: a lowercase letter, then letters, digits and
\* underscores, in braces.
IsPlaceholder(s, b, k) ==
  /\ s[b] = "{" /\ s[k] = "}"
  /\ b + 2 <= k
  /\ s[b + 1] \in Lower
  /\ \A m \in (b + 2)..(k - 1) : s[m] \in WordChar

\* Where the placeholders of a fragment start.
Placeholders(s) ==
  {b \in 1..Len(s) : s[b] = "{" /\ \E k \in b..Len(s) : IsPlaceholder(s, b, k)}

\* The attribute name of the placeholder that starts at b.
PlaceholderName(s, b) ==
  SubSeq(s, b + 1, (CHOOSE k \in b..Len(s) : IsPlaceholder(s, b, k)) - 1)

\* The plan of a fragment list without a fragment of two placeholders.
FragmentPlan(pieces) ==
  [i \in 1..Len(pieces) |->
     IF Placeholders(pieces[i]) = {} THEN <<>>
     ELSE PlaceholderName(pieces[i], CHOOSE b \in Placeholders(pieces[i]) : TRUE)]

\* A fragment of the list has more than one placeholder.
InvalidFragment(pieces) ==
  \E i \in 1..Len(pieces) : Cardinality(Placeholders(pieces[i])) > 1

\* C10: in every state after the build, and so after any render, the two
\* plans of a conditional formatter have the length of their fragment lists,
\* entry i being '' for a fragment without placeholder and the attribute
\* name of its one placeholder otherwise; a class with a long or short
\* fragment of more than one placeholder fails to construct: it has no
\* instance and its RuntimeError was logged.
C10_FragmentPlan ==
  has_event_formatters =>
    \A n \in DOMAIN classes :
      ClassOf(classes[n]).base = "ConditionalEventFormatter" =>
        IF InvalidFragment(ClassOf(classes[n]).FORMAT_STRING_PIECES)
           \/ InvalidFragment(ClassOf(classes[n]).FORMAT_STRING_SHORT_PIECES)
        THEN /\ classes[n] \notin DOMAIN formatters
             /\ \E w \in DOMAIN warnings :
                  /\ warnings[w].cls = classes[n]
                  /\ warnings[w].error \in
                       {"Invalid format string piece",
                        "Invalid short format string piece"}
        ELSE classes[n] \in DOMAIN formatters =>
             /\ formatters[classes[n]].format_string_pieces_map
                  = FragmentPlan(ClassOf(classes[n]).FORMAT_STRING_PIECES)
             /\ formatters[classes[n]].format_string_short_pieces_map
                  = FragmentPlan(ClassOf(classes[n]).FORMAT_STRING_SHORT_PIECES)

\* A conditional formatter with a text fragment has rendered, in a program
\* with a class that fails to construct.
C10_Witness ==
  /\ has_event_formatters
  /\ Rendered /\ result.cls = TextDetailFormatter.name /\ result.kind = "return"
  /\ \E n \in DOMAIN classes : ~Constructs(classes[n])

\* What the call a thread has ended gave.
ThreadOut(t) ==
  [kind |-> threads[t].kind, msg |-> threads[t].msg,
   msg_short |-> threads[t].msg_short]

\* The threads t and u have called GetMessages of one conditional formatter
\* instance, each with an event object of the formatter's data type.
SameConditionalFormatter(t, u) ==
  /\ t # u
  /\ threads[t].cls # None
  /\ threads[u].cls = threads[t].cls
  /\ ThreadClass(t).base = "ConditionalEventFormatter"
  /\ DataTypeMatches(ThreadClass(t), ThreadEvent(t))
  /\ DataTypeMatches(ThreadClass(u), ThreadEvent(u))

\* C11: when two threads call GetMessages of one conditional formatter
\* instance with event objects of different attributes, each call gives,
\* under every interleaving, the pair it gives when it runs alone: no call
\* formats with the format string joined for the other call's event object.
C11_RenderAloneUnderInterleaving ==
  \A t, u \in Threads :
    (SameConditionalFormatter(t, u) /\ At(t, "done")) =>
      ThreadOut(t) = FirstRender(threads[t].cls, threads[t].event)

\* The threads that are in the first branch of GetFormatter: they build the
\* dictionary.
Building ==
  {t \in Threads : threads[t].pc \in {"assign", "loop", "store", "setdefault"}}

\* What GetFormatter gives for the event object when the dictionary is
\* built of the classes by one call.
AloneGetFormatter(order, e) ==
  Subscript(BuiltRegistry(order), Events[e].data_type, TRUE)

\* C12: under every interleaving of GetFormatter calls, the first calls
\* that overlap included, the dictionary is built once, by one thread; a
\* call that reads the dictionary reads the completely built one, never an
\* empty or a partly built one; and every call gives the formatter the
\* completely built dictionary holds for the data type.
C12_BuiltOnceAndComplete ==
  /\ Cardinality(Building) <= 1
  /\ \A t \in Threads :
       At(t, "subscript") =>
         event_formatters = BuiltRegistry(classes).event_formatters
  /\ \A t \in Threads :
       At(t, "done") =>
         /\ threads[t].kind = AloneGetFormatter(classes, threads[t].event).kind
         /\ threads[t].cls =
              AloneGetFormatter(classes, threads[t].event).formatter

====
